---- MODULE Spec2Model ----
(***************************************************************************)
(* Model of the three stub components (ADBController, VisionProcessor,     *)
(* Planner) and of the smoke-test script test_python_imports.py.           *)
(*                                                                         *)
(* Python objects with identity (dicts, lists) live in `heap', addressed   *)
(* by positive integers; None is the reference 0.  Python str values are   *)
(* immutable and are modelled by TLA+ strings.  Each method is a pure     *)
(* operator from the receiver's fields and the arguments to the new       *)
(* fields and the return value; the actions apply these operators to the  *)
(* instances and record the call in `last'.                                *)
(***************************************************************************)
EXTENDS Integers, Sequences, FiniteSets, TLC

VARIABLES
    connected,     \* ADBController.connected, per controller instance
    initialized,   \* VisionProcessor.initialized, per processor instance
    strategy,      \* Planner.strategy, per planner instance: a reference or None
    heap,          \* the live dict and list objects, by reference
    last,          \* the most recent method call: receiver, argument, result
    processed,     \* history: processors on which process_image has been called
    planned,       \* history: per planner, the argument of its latest create_plan
    pc,            \* position of the smoke-test script
    out,           \* the markers the script has printed
    ran,           \* the script steps that have run, in order
    status         \* the script's exit status, NoStatus while running

vars == <<connected, initialized, strategy, heap, last, processed, planned,
          pc, out, ran, status>>

-----------------------------------------------------------------------------
(* Bounds and input pools *)

\* Number of client-driven instances of each component.
NumInst == 2

\* The instance of each component the smoke-test script creates.
ScriptInst == 0

Clients == 1..NumInst

\* Paths passed to process_image and inputs passed to detect_objects.
Paths == {"", "test.jpg"}

\* The objectives lists the clients hold and pass to create_plan.
ObjectivesPool == << <<>>, <<"objective1", "objective2">> >>

-----------------------------------------------------------------------------
(* Python values *)

None == 0

NoStatus == -1

PyList(items) == [kind |-> "list", items |-> items]

PyDict(items) == [kind |-> "dict", items |-> items]

\* len() of a container.
PyLen(o) == IF o.kind = "dict" THEN Cardinality(DOMAIN o.items) ELSE Len(o.items)

\* A fresh reference: the lowest one not in use.
Alloc(h) == CHOOSE r \in 1..(Cardinality(DOMAIN h) + 1) : r \notin DOMAIN h

\* The heap with a new object o at reference r.
Store(h, r, o) == [x \in DOMAIN h \cup {r} |-> IF x = r THEN o ELSE h[x]]

\* Variant: the test looks at the objectives instead of the record.
MutTruthyObjectives(h, x) == x # None /\ PyLen(h[h[x].items.objectives]) > 0

\* Truth value of `if x:' for x None or a container.
Truthy(h, x) == x # None /\ PyLen(h[x]) > 0

-----------------------------------------------------------------------------
(* ADBController *)

ADBController_init == [connected |-> FALSE]

\* Variant: the flag is not set.
MutConnectKeeps(self) == [self |-> self, ret |-> TRUE]

connect(self) == [self |-> [self EXCEPT !.connected = TRUE], ret |-> TRUE]

\* Variant: returns the flag as it was.
MutDisconnectReportsState(self) ==
    [self |-> [self EXCEPT !.connected = FALSE], ret |-> self.connected]

disconnect(self) == [self |-> [self EXCEPT !.connected = FALSE], ret |-> TRUE]

-----------------------------------------------------------------------------
(* VisionProcessor *)

VisionProcessor_init == [initialized |-> FALSE]

\* Variant: no space after the colon.
MutProcessNoSpace(self, image_path) ==
    [self |-> [self EXCEPT !.initialized = TRUE],
     ret  |-> "Processed:" \o image_path]

\* Variant: the prefix is added only once the processor is initialized.
MutProcessByFlag(self, image_path) ==
    [self |-> [self EXCEPT !.initialized = TRUE],
     ret  |-> IF self.initialized THEN "Processed: " \o image_path ELSE image_path]

process_image(self, image_path) ==
    [self |-> [self EXCEPT !.initialized = TRUE],
     ret  |-> "Processed: " \o image_path]

\* Variant: the input is returned in the list.
MutDetectEchoes(h, self, image) ==
    LET r == Alloc(h)
    IN [self |-> self, heap |-> Store(h, r, PyList(<<image>>)), ret |-> r]

\* `return []' builds a new list on every call.
detect_objects(h, self, image) ==
    LET r == Alloc(h)
    IN [self |-> self, heap |-> Store(h, r, PyList(<<>>)), ret |-> r]

-----------------------------------------------------------------------------
(* Planner *)

Planner_init == [strategy |-> None]

\* Variant: steps is the objectives list itself.
MutCreateStepsAlias(h, self, objectives) ==
    LET d == Alloc(h)
        h1 == Store(h, d, PyDict([objectives |-> objectives, steps |-> objectives]))
    IN [self |-> [self EXCEPT !.strategy = d], heap |-> h1, ret |-> d]

\* Variant: a copy of the stored record is returned.
MutCreateReturnsCopy(h, self, objectives) ==
    LET s == Alloc(h)
        h1 == Store(h, s, PyList(<<>>))
        d == Alloc(h1)
        h2 == Store(h1, d, PyDict([objectives |-> objectives, steps |-> s]))
        c == Alloc(h2)
        h3 == Store(h2, c, PyDict([objectives |-> objectives, steps |-> s]))
    IN [self |-> [self EXCEPT !.strategy = d], heap |-> h3, ret |-> c]

\* Variant: an existing plan is kept.
MutCreateKeepsFirst(h, self, objectives) ==
    LET s == Alloc(h)
        h1 == Store(h, s, PyList(<<>>))
        d == Alloc(h1)
        h2 == Store(h1, d, PyDict([objectives |-> objectives, steps |-> s]))
    IN IF self.strategy # None
       THEN [self |-> self, heap |-> h, ret |-> self.strategy]
       ELSE [self |-> [self EXCEPT !.strategy = d], heap |-> h2, ret |-> d]

\* The dict display evaluates `[]' (a new list), then builds a new dict that
\* holds the caller's objectives list by reference.
create_plan(h, self, objectives) ==
    LET s == Alloc(h)
        h1 == Store(h, s, PyList(<<>>))
        d == Alloc(h1)
        h2 == Store(h1, d, PyDict([objectives |-> objectives, steps |-> s]))
    IN [self |-> [self EXCEPT !.strategy = d], heap |-> h2, ret |-> d]

execute_plan(h, self) ==
    [self |-> self,
     ret  |-> IF Truthy(h, self.strategy) THEN "Plan executed"
                                          ELSE "No plan to execute"]

-----------------------------------------------------------------------------
(* State shared by the actions *)

\* The clients' objectives lists occupy the first references of the heap.
PoolRefs == 1..Len(ObjectivesPool)

\* The record of one method call: the receiver's class and instance, the
\* argument, what the receiver looked like before the call, and the result.
Call(cls, op, i, arg, pre, ret) ==
    [cls |-> cls, op |-> op, self |-> i, arg |-> arg, pre |-> pre, ret |-> ret]

\* The calls whose argument, or result, is a reference.
RefArg(l) == l.op = "create_plan"

RefRet(l) == l.op \in {"create_plan", "detect_objects"}

\* f with f[i] set to v, i added to the domain when new.
Bind(f, i, v) == [x \in DOMAIN f \cup {i} |-> IF x = i THEN v ELSE f[x]]

RECURSIVE Ascending(_)
Ascending(S) ==
    IF S = {} THEN <<>>
    ELSE LET m == CHOOSE x \in S : \A y \in S : x <= y
         IN <<m>> \o Ascending(S \ {m})

Range(q) == {q[k] : k \in 1..Len(q)}

\* The references an object holds, in the order it holds them.
ChildrenSeq(o) ==
    IF o.kind = "dict" THEN <<o.items.objectives, o.items.steps>> ELSE <<>>

\* The live references, in the order a traversal from `todo' meets them.
RECURSIVE Visit(_, _, _)
Visit(h, todo, seen) ==
    IF todo = <<>> THEN seen
    ELSE LET r == Head(todo)
         IN IF r = None \/ r \in Range(seen)
            THEN Visit(h, Tail(todo), seen)
            ELSE Visit(h, ChildrenSeq(h[r]) \o Tail(todo), Append(seen, r))

\* What the program still holds after a call: the clients' lists, every
\* planner's strategy, and a returned object.
RootSeq(strat, l) ==
    Ascending(PoolRefs)
        \o [k \in 1..Cardinality(DOMAIN strat) |-> strat[Ascending(DOMAIN strat)[k]]]
        \o (IF RefRet(l) THEN <<l.ret>> ELSE <<>>)

\* The live objects of h renumbered by their position in `order'.
Renumber(h, strat, l, pl, order) ==
    LET To(r) == IF r = None THEN None
                 ELSE CHOOSE k \in 1..Len(order) : order[k] = r
        Moved(o) == IF o.kind = "dict"
                    THEN PyDict([k \in DOMAIN o.items |-> To(o.items[k])])
                    ELSE o
    IN [heap     |-> [k \in 1..Len(order) |-> Moved(h[order[k]])],
        strategy |-> [i \in DOMAIN strat |-> To(strat[i])],
        planned  |-> [i \in DOMAIN pl |-> To(pl[i])],
        last     |-> [l EXCEPT !.arg = IF RefArg(l) THEN To(@) ELSE @,
                               !.ret = IF RefRet(l) THEN To(@) ELSE @]]

\* The memory manager after a call.  Objects no reference leads to are
\* reclaimed, and the live ones are renumbered in traversal order: a reference
\* is an identity, not an address, so heaps of one shape are one state.
Settle(h, strat, l, pl) ==
    CHOOSE s \in {Renumber(h, strat, l, pl, order) :
                     order \in {Visit(h, RootSeq(strat, l), <<>>)}} : TRUE

\* The process is either a client program driving its own instances or the
\* smoke-test script, which creates its instances itself.
Init ==
    /\ pc \in {"client", "import"}
    /\ connected = [i \in IF pc = "client" THEN Clients ELSE {} |->
                        ADBController_init.connected]
    /\ initialized = [i \in DOMAIN connected |-> VisionProcessor_init.initialized]
    /\ strategy = [i \in DOMAIN connected |-> Planner_init.strategy]
    /\ heap = [r \in PoolRefs |-> PyList(ObjectivesPool[r])]
    /\ last = Call("none", "none", ScriptInst, None, None, None)
    /\ processed = {}
    /\ planned = [i \in DOMAIN connected |-> None]
    /\ out = <<>>
    /\ ran = <<>>
    /\ status = NoStatus

-----------------------------------------------------------------------------
(* The method calls, on instance i *)

\* The state after a call that left heap h, strategies strat, history pl.
Return(h, strat, l, pl) ==
    \E s \in {Settle(h, strat, l, pl)} :
       /\ heap' = s.heap
       /\ strategy' = s.strategy
       /\ planned' = s.planned
       /\ last' = s.last

DoConnect(i) ==
    LET pre == [connected |-> connected[i]]
        r == connect(pre)
    IN /\ connected' = Bind(connected, i, r.self.connected)
       /\ Return(heap, strategy, Call("adb", "connect", i, None, pre, r.ret), planned)
       /\ UNCHANGED <<initialized, processed>>

DoDisconnect(i) ==
    LET pre == [connected |-> connected[i]]
        r == disconnect(pre)
    IN /\ connected' = Bind(connected, i, r.self.connected)
       /\ Return(heap, strategy, Call("adb", "disconnect", i, None, pre, r.ret), planned)
       /\ UNCHANGED <<initialized, processed>>

DoProcessImage(i, image_path) ==
    LET pre == [initialized |-> initialized[i]]
        r == process_image(pre, image_path)
    IN /\ initialized' = Bind(initialized, i, r.self.initialized)
       /\ processed' = processed \cup {i}
       /\ Return(heap, strategy,
                 Call("vision", "process_image", i, image_path, pre, r.ret), planned)
       /\ UNCHANGED connected

DoDetectObjects(i, image) ==
    LET pre == [initialized |-> initialized[i]]
        r == detect_objects(heap, pre, image)
    IN /\ initialized' = Bind(initialized, i, r.self.initialized)
       /\ Return(r.heap, strategy,
                 Call("vision", "detect_objects", i, image, pre, r.ret), planned)
       /\ UNCHANGED <<connected, processed>>

DoCreatePlan(i, h, objectives) ==
    LET pre == [strategy |-> strategy[i]]
        r == create_plan(h, pre, objectives)
    IN /\ Return(r.heap, Bind(strategy, i, r.self.strategy),
                 Call("planner", "create_plan", i, objectives,
                      [planned |-> strategy[i] # None], r.ret),
                 Bind(planned, i, objectives))
       /\ UNCHANGED <<connected, initialized, processed>>

DoExecutePlan(i) ==
    LET pre == [strategy |-> strategy[i]]
        r == execute_plan(heap, pre)
    IN /\ Return(heap, Bind(strategy, i, r.self.strategy),
                 Call("planner", "execute_plan", i, None,
                      [planned |-> strategy[i] # None], r.ret),
                 planned)
       /\ UNCHANGED <<connected, initialized, processed>>

-----------------------------------------------------------------------------
(* Client code driving its own instances *)

ScriptVars == <<pc, out, ran, status>>

Connect(i) == pc = "client" /\ DoConnect(i) /\ UNCHANGED ScriptVars

Disconnect(i) == pc = "client" /\ DoDisconnect(i) /\ UNCHANGED ScriptVars

ProcessImage(i, s) == pc = "client" /\ DoProcessImage(i, s) /\ UNCHANGED ScriptVars

DetectObjects(i, x) == pc = "client" /\ DoDetectObjects(i, x) /\ UNCHANGED ScriptVars

CreatePlan(i, objs) == pc = "client" /\ DoCreatePlan(i, heap, objs) /\ UNCHANGED ScriptVars

ExecutePlan(i) == pc = "client" /\ DoExecutePlan(i) /\ UNCHANGED ScriptVars

-----------------------------------------------------------------------------
(* test_python_imports.py *)

Modules == {"actions.adb", "vision.processor", "planner.strategy"}

AllSteps == <<"import", "instantiate", "connect", "process_image", "create_plan">>

\* Lines 11-15: the three imports; a module that does not resolve raises
\* ImportError.  Which modules resolve is the environment's choice.
ScriptImport ==
    /\ pc = "import"
    /\ \E found \in SUBSET Modules :
         IF found = Modules
         THEN /\ pc' = "instantiate"
              /\ out' = Append(out, "All imports successful!")
              /\ ran' = Append(ran, "import")
         ELSE /\ pc' = "ImportError"
              /\ UNCHANGED <<out, ran>>
    /\ UNCHANGED <<connected, initialized, strategy, heap, last, processed,
                   planned, status>>

\* Lines 18-22: one instance of each component.
ScriptInstantiate ==
    /\ pc = "instantiate"
    /\ connected' = Bind(connected, ScriptInst, ADBController_init.connected)
    /\ initialized' = Bind(initialized, ScriptInst, VisionProcessor_init.initialized)
    /\ strategy' = Bind(strategy, ScriptInst, Planner_init.strategy)
    /\ planned' = Bind(planned, ScriptInst, None)
    /\ pc' = "connect"
    /\ out' = Append(out, "All modules instantiated successfully!")
    /\ ran' = Append(ran, "instantiate")
    /\ UNCHANGED <<heap, last, processed, status>>

\* Line 25: assert adb.connect() == True
ScriptConnect ==
    /\ pc = "connect"
    /\ DoConnect(ScriptInst)
    /\ IF last'.ret = TRUE
       THEN pc' = "process_image" /\ ran' = Append(ran, "connect")
       ELSE pc' = "Exception" /\ UNCHANGED ran
    /\ UNCHANGED <<out, status>>

\* Line 26: assert vision.process_image("test.jpg") == "Processed: test.jpg"
ScriptProcessImage ==
    /\ pc = "process_image"
    /\ DoProcessImage(ScriptInst, "test.jpg")
    /\ IF last'.ret = "Processed: test.jpg"
       THEN pc' = "create_plan" /\ ran' = Append(ran, "process_image")
       ELSE pc' = "Exception" /\ UNCHANGED ran
    /\ UNCHANGED <<out, status>>

\* Line 27: assert planner.create_plan(["objective1"]) is not None
\* The list display builds a new list for the argument.
ScriptCreatePlan ==
    /\ pc = "create_plan"
    /\ LET a == Alloc(heap)
       IN DoCreatePlan(ScriptInst, Store(heap, a, PyList(<<"objective1">>)), a)
    /\ IF last'.ret # None
       THEN pc' = "report" /\ ran' = Append(ran, "create_plan")
       ELSE pc' = "Exception" /\ UNCHANGED ran
    /\ UNCHANGED <<out, status>>

\* Lines 29-30: the last marker, and return True.
ScriptReport ==
    /\ pc = "report"
    /\ out' = Append(out, "All module functions working correctly!")
    /\ pc' = "returned_true"
    /\ UNCHANGED <<connected, initialized, strategy, heap, last, processed,
                   planned, ran, status>>

\* Lines 32-37: the two handlers; each prints its marker and returns False.
ScriptExcept ==
    /\ pc \in {"ImportError", "Exception"}
    /\ out' = Append(out, IF pc = "ImportError" THEN "Import error" ELSE "Error")
    /\ pc' = "returned_false"
    /\ UNCHANGED <<connected, initialized, strategy, heap, last, processed,
                   planned, ran, status>>

\* Variant: exit(success), where True exits with status 1 and False with 0.
MutScriptExitBool ==
    /\ pc \in {"returned_true", "returned_false"}
    /\ status' = IF pc = "returned_true" THEN 1 ELSE 0
    /\ pc' = "exited"
    /\ UNCHANGED <<connected, initialized, strategy, heap, last, processed,
                   planned, out, ran>>

\* Lines 40-41: exit(0 if success else 1)
ScriptExit ==
    /\ pc \in {"returned_true", "returned_false"}
    /\ status' = IF pc = "returned_true" THEN 0 ELSE 1
    /\ pc' = "exited"
    /\ UNCHANGED <<connected, initialized, strategy, heap, last, processed,
                   planned, out, ran>>

-----------------------------------------------------------------------------

Next ==
    \/ \E i \in Clients : Connect(i)
    \/ \E i \in Clients : Disconnect(i)
    \/ \E i \in Clients, s \in Paths : ProcessImage(i, s)
    \/ \E i \in Clients, x \in Paths : DetectObjects(i, x)
    \/ \E i \in Clients, a \in PoolRefs : CreatePlan(i, a)
    \/ \E i \in Clients : ExecutePlan(i)
    \/ ScriptImport
    \/ ScriptInstantiate
    \/ ScriptConnect
    \/ ScriptProcessImage
    \/ ScriptCreatePlan
    \/ ScriptReport
    \/ ScriptExcept
    \/ ScriptExit

Spec == Init /\ [][Next]_vars

-----------------------------------------------------------------------------
(* Observations used by the properties *)

\* The items of the list at reference r.
ItemsAt(h, r) == h[r].items

\* The stored plan of a planner by value: <<>> when absent, else the
\* objectives and the steps.
PlanOf(h, r) ==
    IF r = None THEN <<>>
    ELSE <<ItemsAt(h, h[r].items.objectives), ItemsAt(h, h[r].items.steps)>>

\* The step records the same call as the one before it (fields of one call
\* have one type, so the operation is compared first).
SameCall ==
    /\ last'.op = last.op
    /\ last'.self = last.self
    /\ last'.arg = last.arg
    /\ last'.pre = last.pre
    /\ last'.ret = last.ret

\* The step is a call on instance i of class cls.
Acts(cls, i) == ~SameCall /\ last'.cls = cls /\ last'.self = i

-----------------------------------------------------------------------------
(* Properties *)

\* C1: execute_plan returns "Plan executed" exactly when create_plan has been
\* called before on the same planner, whatever objectives it was given (the
\* empty list included), and "No plan to execute" otherwise.
C1_ExecutePlanIffCreated ==
    last.op = "execute_plan" =>
        /\ last.ret = "Plan executed" <=> planned[last.self] # None
        /\ last.ret = "No plan to execute" <=> planned[last.self] = None

C1_Witness ==
    /\ last.op = "execute_plan"
    /\ last.ret = "Plan executed"
    /\ planned[last.self] # None
    /\ ItemsAt(heap, planned[last.self]) = <<>>

\* C2: create_plan on a non-empty objectives list returns a record with the
\* fields objectives, equal to the argument, and steps, empty; the returned
\* record is the very object stored as the planner's strategy.
C2_CreatePlanResult ==
    (last.op = "create_plan" /\ ItemsAt(heap, last.arg) # <<>>) =>
        /\ heap[last.ret].kind = "dict"
        /\ DOMAIN heap[last.ret].items = {"objectives", "steps"}
        /\ ItemsAt(heap, heap[last.ret].items.objectives) = ItemsAt(heap, last.arg)
        /\ ItemsAt(heap, heap[last.ret].items.steps) = <<>>
        /\ last.ret = strategy[last.self]

C2_Witness ==
    /\ last.op = "create_plan"
    /\ ItemsAt(heap, last.arg) = <<"objective1", "objective2">>
    /\ last.pre.planned

\* C3: every connect returns true and leaves the controller connected.
C3_ConnectSetsTrue ==
    last.op = "connect" => (last.ret = TRUE /\ connected[last.self] = TRUE)

C3_Witness == last.op = "connect" /\ last.self \in Clients /\ last.pre.connected

\* C4: every disconnect returns true and leaves the controller disconnected.
C4_DisconnectSetsFalse ==
    last.op = "disconnect" => (last.ret = TRUE /\ connected[last.self] = FALSE)

C4_Witness == last.op = "disconnect" /\ ~last.pre.connected

\* C5: process_image(s) returns "Processed: " followed by s, and the
\* processor is initialized afterwards.
C5_ProcessImageResult ==
    last.op = "process_image" =>
        /\ last.ret = "Processed: " \o last.arg
        /\ Len(last.ret) = 11 + Len(last.arg)
        /\ last.arg = "" => last.ret = "Processed: "
        /\ last.arg = "test.jpg" => last.ret = "Processed: test.jpg"
        /\ initialized[last.self] = TRUE

C5_Witness == last.op = "process_image" /\ last.arg = "" /\ ~last.pre.initialized

\* C6: detect_objects returns an empty list for every input, in every state
\* of the processor.
C6_DetectObjectsEmpty ==
    last.op = "detect_objects" =>
        (heap[last.ret].kind = "list" /\ ItemsAt(heap, last.ret) = <<>>)

C6_Witness ==
    last.op = "detect_objects" /\ last.arg = "test.jpg" /\ last.pre.initialized

\* The script leaves no trace of the step named.
NotRun(step) ==
    CASE step = "instantiate"   -> ScriptInst \notin DOMAIN connected
                                   /\ ScriptInst \notin DOMAIN initialized
                                   /\ ScriptInst \notin DOMAIN strategy
      [] step = "connect"       -> ScriptInst \in DOMAIN connected
                                       => ~connected[ScriptInst]
      [] step = "process_image" -> ScriptInst \notin processed
      [] step = "create_plan"   -> ScriptInst \in DOMAIN planned
                                       => planned[ScriptInst] = None
      [] OTHER                  -> TRUE

\* C7: the script exits with status 0 exactly when the imports, the
\* instantiations and the three assertions all succeeded; when a step fails,
\* an error marker is the last thing printed, no later step has run and the
\* status is not 0.  With the components as they are, a run whose imports
\* resolve ends with status 0.
C7_ScriptExit ==
    pc = "exited" =>
        /\ status \in {0, 1}
        /\ status = 0 <=> ran = AllSteps
        /\ status = 0 =>
               out[Len(out)] = "All module functions working correctly!"
        /\ status # 0 =>
               /\ out[Len(out)] \in {"Import error", "Error"}
               /\ "All module functions working correctly!" \notin Range(out)
               /\ \A k \in (Len(ran) + 2)..Len(AllSteps) : NotRun(AllSteps[k])
        /\ "All imports successful!" \in Range(out) => status = 0

C7_Witness ==
    /\ pc = "exited"
    /\ status = 0
    /\ connected[ScriptInst]
    /\ initialized[ScriptInst]
    /\ strategy[ScriptInst] # None

\* C8: a planner's stored plan is absent until its first create_plan; from
\* then on it is present, with the objectives of the latest create_plan and
\* no steps; and only a create_plan on that planner changes it (execute_plan
\* and every other step leave it as it was).
C8_PlanLifecycle ==
    /\ [](\A i \in DOMAIN strategy :
            /\ planned[i] = None => strategy[i] = None
            /\ planned[i] # None =>
                 /\ strategy[i] # None
                 /\ PlanOf(heap, strategy[i]) = <<ItemsAt(heap, planned[i]), <<>> >>)
    /\ [][\A i \in DOMAIN strategy :
            /\ strategy[i] # None => strategy'[i] # None
            /\ PlanOf(heap', strategy'[i]) # PlanOf(heap, strategy[i])
                 => (last'.op = "create_plan" /\ last'.self = i)
            /\ last'.op = "execute_plan"
                 => PlanOf(heap', strategy'[i]) = PlanOf(heap, strategy[i])]_vars

C8_Witness ==
    /\ last.op = "create_plan"
    /\ last.pre.planned
    /\ ItemsAt(heap, planned[last.self]) = <<>>
    /\ PlanOf(heap, strategy[last.self]) = << <<>>, <<>> >>

\* C9: a step changes the state of no instance but the one it is a call on,
\* and no two planners share a plan record or a steps list, also when their
\* plans were made from one objectives list.
C9_InstancesIsolated ==
    [][/\ \A i \in DOMAIN connected :
            ~Acts("adb", i) => connected'[i] = connected[i]
       /\ \A i \in DOMAIN initialized :
            ~Acts("vision", i) => initialized'[i] = initialized[i]
       /\ \A i \in DOMAIN strategy :
            ~Acts("planner", i) =>
                /\ (strategy'[i] = None) = (strategy[i] = None)
                /\ PlanOf(heap', strategy'[i]) = PlanOf(heap, strategy[i])
       /\ \A i, j \in DOMAIN strategy' :
            (i # j /\ strategy'[i] # None /\ strategy'[j] # None) =>
                /\ strategy'[i] # strategy'[j]
                /\ heap'[strategy'[i]].items.steps # heap'[strategy'[j]].items.steps
                /\ heap'[strategy'[i]].items.steps
                       # heap'[strategy'[j]].items.objectives]_vars

C9_Witness ==
    /\ pc = "client"
    /\ planned[1] # None
    /\ planned[1] = planned[2]
    /\ heap[strategy[1]].items.objectives = heap[strategy[2]].items.objectives
    /\ connected[1] /\ ~connected[2]
    /\ initialized[2] /\ ~initialized[1]

\* C10: a processor's flag is false until process_image is first called on
\* it and true in every state after; it never returns to false;
\* detect_objects leaves it as it was; and neither method's result depends
\* on it.
C10_InitializedFlag ==
    /\ [](/\ \A i \in DOMAIN initialized : initialized[i] <=> i \in processed
          /\ last.op = "detect_objects" =>
               /\ initialized[last.self] = last.pre.initialized
               /\ LET r == detect_objects(heap, [initialized |-> ~last.pre.initialized],
                                          last.arg)
                  IN r.heap[r.ret] = heap[last.ret]
          /\ last.op = "process_image" =>
               last.ret = process_image([initialized |-> ~last.pre.initialized],
                                        last.arg).ret)
    /\ [][\A i \in DOMAIN initialized : initialized[i] => initialized'[i]]_vars

C10_Witness ==
    /\ last.op = "process_image"
    /\ last.pre.initialized
    /\ last.arg = "test.jpg"
    /\ \E i \in DOMAIN initialized : ~initialized[i]

====
